---- MODULE Spec2Model ----
(***************************************************************************)
(* Model of utf8_password_to_pdfdoc (pdftk-2.02, passwords.cc): the        *)
(* conversion of a UTF-8 password into PDFDocEncoding, one byte per code   *)
(* point.  The decode loop is a state machine; the same helper operators   *)
(* also define the whole call as a function, so that two calls on the same *)
(* input (dry run / real run, encrypting / decrypting) can be compared.    *)
(*                                                                         *)
(* Bytes are 0..255.  C indices are 0-based: ss[ii] is At(ss, ii).         *)
(***************************************************************************)
EXTENDS Integers, Sequences, FiniteSets

VARIABLES ss, ss_size, encrypt_b, bb_null, bb, ii, ret_val, data, pc, reads, iters

vars == <<ss, ss_size, encrypt_b, bb_null, bb, ii, ret_val, data, pc, reads, iters>>

\* ------------------------------------------------------------------ bounds
\* longest input built from the byte alphabet SmallBytes
MaxLen == 3

\* ------------------------------------------------------------------ inputs
Byte == 0..255

\* 00 'A' 7F 80 94 A0 C0 C2 C4 C5 E0 E2 F0
SmallBytes == {0, 65, 127, 128, 148, 160, 192, 194, 196, 197, 224, 226, 240}

SmallInputs == UNION {[1..n -> SmallBytes] : n \in 0..MaxLen}

OneByteInputs == {<<b>> : b \in Byte}

\* every lead byte 110xxxxx with every continuation byte 10xxxxxx
TwoByteInputs == {<<l, c>> : l \in 192..223, c \in 128..191}

\* every lead byte 1110xxxx with every pair of continuation bytes
ThreeByteInputs == {<<l, c, d>> : l \in 224..239, c \in 128..191, d \in 128..191}

\* "cafe" with U+00E9; "A" U+2014; "A" U+0100; U+0160 U+0192 "A"; "A" NUL "A" C3
SampleInputs ==
  { <<99, 97, 102, 195, 169>>,
    <<65, 226, 128, 148>>,
    <<65, 196, 128>>,
    <<197, 160, 198, 146, 65>>,
    <<65, 0, 65, 195>> }

Inputs == SmallInputs \cup OneByteInputs \cup TwoByteInputs
            \cup ThreeByteInputs \cup SampleInputs

At(s, i) == s[i + 1]

\* ------------------------------------------------------- the remap table
\* unicode 0x100 - 0x1FF
unicode_latin_extended_windows_map ==
  <<
      65,  97, 195, 196, 165, 185, 198, 230,  46,  46,  46,  46, 200, 232, 207, 239,
     208, 240,  69, 101,  46,  46,  69, 101, 202, 234, 204, 236,  46,  46,  71, 103,
      46,  46,  71, 103,  46,  46,  46,  46,  46,  46,  73, 105,  46,  46,  73, 105,
      73, 105,  46,  46,  46,  46,  75, 107,  46, 197, 229,  76, 108, 188, 190,  46,
      46, 163, 179, 209, 241,  78, 110, 210, 242,  46,  46,  46,  79, 111,  46,  46,
     213, 245, 150, 156, 192, 224,  82, 114, 216, 248, 140, 156,  46,  46, 170, 186,
     138, 154, 222, 254, 141, 157,  84, 116,  46,  46,  85, 117,  46,  46, 217, 249,
     219, 251,  85, 117,  46,  46,  46,  46, 152, 143, 159, 175, 191, 153, 158,  46,
      98,  46,  46,  46,  46,  46,  46,  46,  46, 208,  46,  46,  46,  46,  46,  46,
      46, 131, 131,  46,  46,  46,  46,  73,  46,  46, 108,  46,  46,  46,  46,  79,
      79, 111,  46,  46,  46,  46,  46,  46,  46,  46,  46, 116,  46,  46,  84,  85,
     117,  46,  46,  46,  46,  46,  46,  46,  46,  46,  46,  46,  46,  46,  46,  46,
     124,  46,  46,  33,  46,  46,  46,  46,  46,  46,  46,  46,  46,  46,  46,  46,
      46,  46,  46,  46,  46,  46,  46,  46,  46,  46,  46,  46,  46,  46,  65,  97,
      46,  46,  46,  46,  71, 103,  46,  46,  46,  46,  46,  46,  79, 111,  46,  46,
      46,  46,  46,  46,  46,  46,  46,  46,  46,  46,  46,  46,  46,  46,  46,  46
  >>

\* ----------------------------------------------------------- UTF-8 decode
\* mutant: the loop condition without the test ret_val!= -1
LoopCond_noRetTest(s, size, i, rv) == i < size /\ At(s, i) # 0

\* for( ...; ii< ss_size && ss[ii] && ret_val!= -1; )
LoopCond(s, size, i, rv) == i < size /\ At(s, i) # 0 /\ rv # -1

\* (ss[ii] & 0x80) == 0
IsSingle(s, size, i) == (At(s, i) \div 128) * 128 = 0

\* (ss[ii] & 0xE0) == 0xC0 && ii+1 < ss_size && (ss[ii+1] & 0xC0) == 0x80
IsTwoByte(s, size, i) ==
  /\ (At(s, i) \div 32) * 32 = 192
  /\ i + 1 < size
  /\ (At(s, i + 1) \div 64) * 64 = 128

\* (ss[ii] & 0xF0) == 0xE0 && ii+1 < ss_size && (ss[ii+1] & 0xC0) == 0x80
\*                         && ii+2 < ss_size && (ss[ii+2] & 0xC0) == 0x80
IsThreeByte(s, size, i) ==
  /\ (At(s, i) \div 16) * 16 = 224
  /\ i + 1 < size
  /\ (At(s, i + 1) \div 64) * 64 = 128
  /\ i + 2 < size
  /\ (At(s, i + 2) \div 64) * 64 = 128

\* data= ss[ii]
SingleData(s, i) == At(s, i)

\* data= (ss[ii] & 0x1f); data= data<< 6; data= data+ (ss[ii+1] & 0x3f)
TwoByteData(s, i) == (At(s, i) % 32) * 64 + (At(s, i + 1) % 64)

\* data= (ss[ii] & 0x0f); <<6; + (ss[ii+1] & 0x3f); <<6; + (ss[ii+2] & 0x3f)
ThreeByteData(s, i) ==
  ((At(s, i) % 16) * 64 + (At(s, i + 1) % 64)) * 64 + (At(s, i + 2) % 64)

\* which branch of the if / else-if chain is taken at ii
DecodeKind(s, size, i) ==
  IF IsSingle(s, size, i) THEN "single"
  ELSE IF IsTwoByte(s, size, i) THEN "two"
  ELSE IF IsThreeByte(s, size, i) THEN "three"
  ELSE "bad"

\* mutant: the look-ahead bytes are read before ii+1< ss_size and
\* ii+2< ss_size are tested
DecodeReads_noBound(s, size, i) ==
  LET b0 == At(s, i) IN
  {i}
  \cup (IF b0 >= 128 /\ (b0 \div 32) * 32 = 192 THEN {i + 1} ELSE {})
  \cup (IF b0 >= 128 /\ (b0 \div 16) * 16 = 224 THEN {i + 1, i + 2} ELSE {})

\* the indices of ss the decode step reads at ii (&& short-circuits)
DecodeReads(s, size, i) ==
  LET b0 == At(s, i) IN
  {i}
  \cup (IF b0 >= 128 /\ (b0 \div 32) * 32 = 192 /\ i + 1 < size
        THEN {i + 1} ELSE {})
  \cup (IF b0 >= 128 /\ ~IsTwoByte(s, size, i) /\ (b0 \div 16) * 16 = 224
           /\ i + 1 < size
        THEN {i + 1} \cup (IF (At(s, i + 1) \div 64) * 64 = 128 /\ i + 2 < size
                           THEN {i + 2} ELSE {})
        ELSE {})

\* -------------------------------------------------------- classification
\* mutant: the upper range tested as 0xa0< data
IsDirect_exclusiveA0(d) == (32 <= d /\ d < 127) \/ (160 < d /\ d <= 255)

\* 0x20<= data && data< 0x7f || 0xa0<= data && data<= 0xff
IsDirect(d) == (32 <= d /\ d < 127) \/ (160 <= d /\ d <= 255)

\* mutant: the outer switch without case 0x0192 (florin)
AlwaysCases_noFlorin == {338, 339, 352, 382, 376, 381, 353}

\* the case labels of the outer switch
AlwaysCases == {338, 339, 352, 382, 376, 381, 402, 353}

\* the outer switch: OE oe Scaron zcaron Ydieresis Zcaron florin scaron
AlwaysByte(d) ==
  CASE d = 338 -> 150      \* 0x0152 -> 0226
    [] d = 339 -> 156      \* 0x0153 -> 0234
    [] d = 352 -> 151      \* 0x0160 -> 0227
    [] d = 382 -> 158      \* 0x017E -> 0236
    [] d = 376 -> 152      \* 0x0178 -> 0230
    [] d = 381 -> 153      \* 0x017D -> 0231
    [] d = 402 -> 134      \* 0x0192 -> 0206
    [] d = 353 -> 157      \* 0x0161 -> 0235

\* mutant: the range tested as data< 0x1FF
InMapRange_exclusiveTop(d) == 256 <= d /\ d < 511

\* 0x100<= data && data<= 0x1FF
InMapRange(d) == 256 <= d /\ d <= 511

\* unicode_latin_extended_windows_map[ data- 0x100 ]
MapLookup(d) == unicode_latin_extended_windows_map[(d - 256) + 1]

\* the case labels of the inner (decrypt only) switch
DecryptCases == {8364, 8226, 8224, 8225, 8230, 710, 8212, 8211, 8249, 8250,
                 8240, 8222, 8220, 8221, 8216, 8217, 8218, 732, 8482}

\* the inner switch
DecryptByte(d) ==
  CASE d = 8364 -> 160     \* 0x20AC Euro           0240
    [] d = 8226 -> 128     \* 0x2022 bullet         0200
    [] d = 8224 -> 129     \* 0x2020 dagger         0201
    [] d = 8225 -> 130     \* 0x2021 daggerdbl      0202
    [] d = 8230 -> 131     \* 0x2026 ellipsis       0203
    [] d = 710  -> 26      \* 0x02C6 circumflex     0032
    [] d = 8212 -> 132     \* 0x2014 emdash         0204
    [] d = 8211 -> 133     \* 0x2013 endash         0205
    [] d = 8249 -> 136     \* 0x2039 guilsinglleft  0210
    [] d = 8250 -> 137     \* 0x203A guilsinglright 0211
    [] d = 8240 -> 139     \* 0x2030 perthousand    0213
    [] d = 8222 -> 140     \* 0x201E quotedblbase   0214
    [] d = 8220 -> 141     \* 0x201C quotedblleft   0215
    [] d = 8221 -> 142     \* 0x201D quotedblright  0216
    [] d = 8216 -> 143     \* 0x2018 quoteleft      0217
    [] d = 8217 -> 144     \* 0x2019 quoteright     0220
    [] d = 8218 -> 145     \* 0x201A quotesinglebase 0221
    [] d = 732  -> 31      \* 0x02DC tilde          0037
    [] d = 8482 -> 146     \* 0x2122 trademark      0222

\* mutant: when decrypting, the table range is tested before the outer switch
ClassKind_mapFirst(d, enc) ==
  IF IsDirect(d) THEN "direct"
  ELSE IF ~enc /\ InMapRange(d) THEN "map"
  ELSE IF d \in AlwaysCases THEN "always"
  ELSE IF enc THEN "strict_reject"
  ELSE IF d \in DecryptCases THEN "decrypt"
  ELSE "reject"

\* which branch of the classification the code point takes
ClassKind(d, enc) ==
  IF IsDirect(d) THEN "direct"
  ELSE IF d \in AlwaysCases THEN "always"
  ELSE IF enc THEN "strict_reject"
  ELSE IF InMapRange(d) THEN "map"
  ELSE IF d \in DecryptCases THEN "decrypt"
  ELSE "reject"

\* data after the classification (unchanged where the code leaves it alone)
ClassData(d, enc) ==
  LET k == ClassKind(d, enc) IN
  CASE k = "always"  -> AlwaysByte(d)
    [] k = "map"     -> MapLookup(d)
    [] k = "decrypt" -> DecryptByte(d)
    [] OTHER         -> d

\* ret_val after the classification
ClassRet(d, enc, rv) ==
  IF ClassKind(d, enc) \in {"strict_reject", "reject"} THEN -1 ELSE rv

\* ------------------------------------------------------------------ emit
\* bb[ ret_val ]= data, a jbyte: the low eight bits of data
StoreByte(d) == d % 256

\* if( bb ) bb[ ret_val ]= data
EmitBuf(buf, isnull, rv, d) ==
  IF isnull THEN buf ELSE [buf EXCEPT ![rv] = StoreByte(d)]

\* mutant: ++ret_val placed inside if( bb )
EmitRet_onlyWithBuffer(isnull, rv) == IF isnull THEN rv ELSE rv + 1

\* ++ret_val
EmitRet(isnull, rv) == rv + 1

\* the caller's buffer before the call; -1 marks a cell not written yet
EmptyBuf(size) == [k \in 0..size |-> -1]

\* ------------------------------------------------ the call as a function
RECURSIVE Loop(_, _, _, _, _, _, _)
Loop(s, size, enc, isnull, i, rv, buf) ==
  IF ~LoopCond(s, size, i, rv) THEN [ret_val |-> rv, bb |-> buf]
  ELSE
    LET k == DecodeKind(s, size, i) IN
    IF k = "bad" THEN [ret_val |-> -1, bb |-> buf]
    ELSE
      LET d  == CASE k = "single" -> SingleData(s, i)
                  [] k = "two"    -> TwoByteData(s, i)
                  [] k = "three"  -> ThreeByteData(s, i)
          ni == CASE k = "single" -> i + 1
                  [] k = "two"    -> i + 2
                  [] k = "three"  -> i + 3
          r1 == ClassRet(d, enc, rv)
          d1 == ClassData(d, enc)
      IN IF r1 = -1 THEN [ret_val |-> -1, bb |-> buf]
         ELSE Loop(s, size, enc, isnull, ni, EmitRet(isnull, r1),
                   EmitBuf(buf, isnull, r1, d1))

utf8_password_to_pdfdoc(isnull, s, size, enc) ==
  Loop(s, size, enc, isnull, 0, 0, EmptyBuf(size))

\* ------------------------------------------------------------- the machine
Init ==
  /\ ss \in Inputs
  /\ ss_size = Len(ss)
  /\ encrypt_b \in BOOLEAN
  /\ bb_null \in BOOLEAN
  /\ bb = EmptyBuf(Len(ss))
  /\ ii = 0
  /\ ret_val = 0
  /\ data = 0
  /\ pc = "loop"
  /\ reads = {}
  /\ iters = 0

\* the loop condition holds: enter the body
LoopEnter ==
  /\ pc = "loop"
  /\ LoopCond(ss, ss_size, ii, ret_val)
  /\ pc' = "decode"
  /\ data' = 0
  /\ reads' = reads \cup {ii}
  /\ iters' = iters + 1
  /\ UNCHANGED <<ss, ss_size, encrypt_b, bb_null, bb, ii, ret_val>>

\* the loop condition fails: return ret_val
LoopExit ==
  /\ pc = "loop"
  /\ ~LoopCond(ss, ss_size, ii, ret_val)
  /\ pc' = "done"
  /\ reads' = reads \cup (IF ii < ss_size THEN {ii} ELSE {})
  /\ UNCHANGED <<ss, ss_size, encrypt_b, bb_null, bb, ii, ret_val, data, iters>>

\* mutant: the single byte branch without ii++
DecodeSingle_noAdvance ==
  /\ pc = "decode"
  /\ DecodeKind(ss, ss_size, ii) = "single"
  /\ data' = SingleData(ss, ii)
  /\ ii' = ii
  /\ reads' = reads \cup DecodeReads(ss, ss_size, ii)
  /\ pc' = "classify"
  /\ UNCHANGED <<ss, ss_size, encrypt_b, bb_null, bb, ret_val, iters>>

\* single byte: data= ss[ii]; ii++
DecodeSingle ==
  /\ pc = "decode"
  /\ DecodeKind(ss, ss_size, ii) = "single"
  /\ data' = SingleData(ss, ii)
  /\ ii' = ii + 1
  /\ reads' = reads \cup DecodeReads(ss, ss_size, ii)
  /\ pc' = "classify"
  /\ UNCHANGED <<ss, ss_size, encrypt_b, bb_null, bb, ret_val, iters>>

DecodeTwo ==
  /\ pc = "decode"
  /\ DecodeKind(ss, ss_size, ii) = "two"
  /\ data' = TwoByteData(ss, ii)
  /\ ii' = ii + 2
  /\ reads' = reads \cup DecodeReads(ss, ss_size, ii)
  /\ pc' = "classify"
  /\ UNCHANGED <<ss, ss_size, encrypt_b, bb_null, bb, ret_val, iters>>

DecodeThree ==
  /\ pc = "decode"
  /\ DecodeKind(ss, ss_size, ii) = "three"
  /\ data' = ThreeByteData(ss, ii)
  /\ ii' = ii + 3
  /\ reads' = reads \cup DecodeReads(ss, ss_size, ii)
  /\ pc' = "classify"
  /\ UNCHANGED <<ss, ss_size, encrypt_b, bb_null, bb, ret_val, iters>>

\* something else: out of range; ret_val= -1; break
DecodeBad ==
  /\ pc = "decode"
  /\ DecodeKind(ss, ss_size, ii) = "bad"
  /\ ret_val' = -1
  /\ reads' = reads \cup DecodeReads(ss, ss_size, ii)
  /\ pc' = "done"
  /\ UNCHANGED <<ss, ss_size, encrypt_b, bb_null, bb, ii, data, iters>>

\* data point good
ClassifyDirect ==
  /\ pc = "classify"
  /\ ClassKind(data, encrypt_b) = "direct"
  /\ data' = data
  /\ ret_val' = ret_val
  /\ pc' = "emit"
  /\ UNCHANGED <<ss, ss_size, encrypt_b, bb_null, bb, ii, reads, iters>>

\* a case of the outer switch
ClassifyAlways ==
  /\ pc = "classify"
  /\ ClassKind(data, encrypt_b) = "always"
  /\ data' = AlwaysByte(data)
  /\ ret_val' = ret_val
  /\ pc' = "emit"
  /\ UNCHANGED <<ss, ss_size, encrypt_b, bb_null, bb, ii, reads, iters>>

\* default: if( encrypt_b ) ret_val= -1
ClassifyStrictReject ==
  /\ pc = "classify"
  /\ ClassKind(data, encrypt_b) = "strict_reject"
  /\ data' = data
  /\ ret_val' = -1
  /\ pc' = "emit"
  /\ UNCHANGED <<ss, ss_size, encrypt_b, bb_null, bb, ii, reads, iters>>

\* use our latin extended windows map
ClassifyMap ==
  /\ pc = "classify"
  /\ ClassKind(data, encrypt_b) = "map"
  /\ data' = MapLookup(data)
  /\ ret_val' = ret_val
  /\ pc' = "emit"
  /\ UNCHANGED <<ss, ss_size, encrypt_b, bb_null, bb, ii, reads, iters>>

\* a case of the inner switch
ClassifyDecrypt ==
  /\ pc = "classify"
  /\ ClassKind(data, encrypt_b) = "decrypt"
  /\ data' = DecryptByte(data)
  /\ ret_val' = ret_val
  /\ pc' = "emit"
  /\ UNCHANGED <<ss, ss_size, encrypt_b, bb_null, bb, ii, reads, iters>>

\* inner default: data point is still out of bounds
ClassifyReject ==
  /\ pc = "classify"
  /\ ClassKind(data, encrypt_b) = "reject"
  /\ data' = data
  /\ ret_val' = -1
  /\ pc' = "emit"
  /\ UNCHANGED <<ss, ss_size, encrypt_b, bb_null, bb, ii, reads, iters>>

\* if( ret_val!= -1 ) { if( bb ) bb[ ret_val ]= data; ++ret_val; }
Emit ==
  /\ pc = "emit"
  /\ ret_val # -1
  /\ bb' = EmitBuf(bb, bb_null, ret_val, data)
  /\ ret_val' = EmitRet(bb_null, ret_val)
  /\ pc' = "loop"
  /\ UNCHANGED <<ss, ss_size, encrypt_b, bb_null, ii, data, reads, iters>>

EmitSkip ==
  /\ pc = "emit"
  /\ ret_val = -1
  /\ pc' = "loop"
  /\ UNCHANGED <<ss, ss_size, encrypt_b, bb_null, bb, ii, ret_val, data, reads, iters>>

Next ==
  \/ LoopEnter
  \/ LoopExit
  \/ DecodeSingle
  \/ DecodeTwo
  \/ DecodeThree
  \/ DecodeBad
  \/ ClassifyDirect
  \/ ClassifyAlways
  \/ ClassifyStrictReject
  \/ ClassifyMap
  \/ ClassifyDecrypt
  \/ ClassifyReject
  \/ Emit
  \/ EmitSkip

Spec == Init /\ [][Next]_vars

\* the call is a sequential function: it keeps running until it returns
FairSpec == Spec /\ WF_vars(Next)

\* ------------------------------------------------------------ sanity
TypeOK ==
  /\ ss \in Seq(Byte)
  /\ ss_size = Len(ss)
  /\ ii \in 0..ss_size
  /\ ret_val \in -1..ss_size
  /\ pc \in {"loop", "decode", "classify", "emit", "done"}
  /\ \A k \in DOMAIN bb : bb[k] \in Byte \cup {-1}

\* the machine and the function agree on the result of the call
MachineIsFunction ==
  pc = "done" =>
    utf8_password_to_pdfdoc(bb_null, ss, ss_size, encrypt_b)
      = [ret_val |-> ret_val, bb |-> bb]

\* ============================================================== claims
\* The vocabulary of the claims, stated on bytes and code points
\* independently of the operators above.

\* a continuation byte 10xxxxxx
U8Cont(b) == b \in 128..191

\* the sequence starting at 0-based index i: its length in bytes (0 when it
\* is structurally invalid) and its code point
U8At(s, i) ==
  LET b == s[i + 1] IN
  IF b \in 0..127 THEN [len |-> 1, cp |-> b]
  ELSE IF b \in 192..223 /\ i + 2 <= Len(s) /\ U8Cont(s[i + 2])
    THEN [len |-> 2, cp |-> (b - 192) * 64 + (s[i + 2] - 128)]
  ELSE IF b \in 224..239 /\ i + 3 <= Len(s) /\ U8Cont(s[i + 2]) /\ U8Cont(s[i + 3])
    THEN [len |-> 3,
          cp |-> (b - 224) * 4096 + (s[i + 2] - 128) * 64 + (s[i + 3] - 128)]
  ELSE [len |-> 0, cp |-> 0]

\* a sequence longer than the shortest encoding of its code point
U8Overlong(u) == (u.len = 2 /\ u.cp < 128) \/ (u.len = 3 /\ u.cp < 2048)

\* the whole input, up to its length: ok (structurally valid), shortest
\* (no overlong sequence) and the code points, in order
RECURSIVE U8Parse(_, _)
U8Parse(s, i) ==
  IF i >= Len(s) THEN [ok |-> TRUE, shortest |-> TRUE, cps |-> <<>>]
  ELSE LET u == U8At(s, i) IN
       IF u.len = 0 THEN [ok |-> FALSE, shortest |-> TRUE, cps |-> <<>>]
       ELSE LET r == U8Parse(s, i + u.len) IN
            [ok |-> r.ok,
             shortest |-> r.shortest /\ ~U8Overlong(u),
             cps |-> <<u.cp>> \o r.cps]

U8Input == U8Parse(ss, 0)

\* structurally valid, shortest-form UTF-8
U8WellFormed == U8Input.ok /\ U8Input.shortest

U8CodePoints == {U8Input.cps[k] : k \in 1..Len(U8Input.cps)}

\* 0x20-0x7E and 0xA0-0xFF
DirectSet == (32..126) \cup (160..255)

\* U+0152 U+0153 U+0160 U+0161 U+0178 U+017D U+017E U+0192
EightSet == {338, 339, 352, 353, 376, 381, 382, 402}

\* U+0100-U+01FF
MapSet == 256..511

\* euro, bullet, dagger, double dagger, ellipsis, circumflex, em-dash,
\* en-dash, single guillemets, per-mille, quotation marks, tilde, trademark
PunctSet == {8364, 8226, 8224, 8225, 8230, 710, 8212, 8211, 8249, 8250, 8240,
             8222, 8220, 8221, 8216, 8217, 8218, 732, 8482}

StrictSet == DirectSet \cup EightSet

PermissiveSet == StrictSet \cup MapSet \cup PunctSet

ModeSet(enc) == IF enc THEN StrictSet ELSE PermissiveSet

\* the bytes the call has written, as the set of indices of bb
Written == {k \in DOMAIN bb : bb[k] # -1}

\* the result of the same call in the other mode / with the other buffer
OtherMode == utf8_password_to_pdfdoc(bb_null, ss, ss_size, ~encrypt_b)

OtherBuffer == utf8_password_to_pdfdoc(~bb_null, ss, ss_size, encrypt_b)

\* C1 (as claimed): the call returns -1 exactly when the input is malformed
\* UTF-8 or holds a code point the mode cannot represent; otherwise it
\* returns a count >= 0.
C1_MinusOneIff ==
  pc = "done" =>
    /\ ret_val = -1 <=>
         (~U8WellFormed \/ \E cp \in U8CodePoints : cp \notin ModeSet(encrypt_b))
    /\ ret_val >= -1

\* C2: the dry run writes nothing and returns what the real run returns; the
\* real run writes exactly the cells 0..n-1 of a buffer of n bytes.
C2_DryRunSizing ==
  pc = "done" =>
    /\ OtherBuffer.ret_val = ret_val
    /\ bb_null => Written = {}
    /\ (~bb_null /\ ret_val >= 0) => Written = 0..(ret_val - 1)
    /\ (bb_null /\ ret_val >= 0) =>
         {k \in DOMAIN OtherBuffer.bb : OtherBuffer.bb[k] # -1} = 0..(ret_val - 1)

C2_Witness ==
  /\ pc = "done"
  /\ bb_null
  /\ ss = <<65, 196, 128>>
  /\ ~encrypt_b
  /\ ret_val = 2
  /\ Written = {}
  /\ OtherBuffer.bb[1] = 65

\* C3 (as claimed): a successful real run returns the number of code points
\* of the input and has written their classification to cells 0..n-1, in
\* order, and nothing else.
C3_OnePerCodePoint ==
  (pc = "done" /\ ~bb_null /\ ret_val >= 0) =>
    /\ U8Input.ok
    /\ ret_val = Len(U8Input.cps)
    /\ Written = 0..(ret_val - 1)
    /\ \A k \in 0..(ret_val - 1) :
         k < Len(U8Input.cps) =>
           bb[k] = StoreByte(ClassData(U8Input.cps[k + 1], encrypt_b))

\* C4: whatever the encrypting (Strict) call accepts, the decrypting
\* (Permissive) call accepts with the same count and the same bytes.
C4_StrictSubset ==
  (pc = "done" /\ encrypt_b /\ ret_val >= 0) =>
    OtherMode = [ret_val |-> ret_val, bb |-> bb]

C4_Witness ==
  /\ pc = "done"
  /\ encrypt_b
  /\ ~bb_null
  /\ ss = <<197, 160, 198, 146, 65>>
  /\ ret_val = 3
  /\ OtherMode.bb[0] = 151

\* C5 (as claimed): an input with a structurally invalid sequence returns -1
\* in both modes.
C5_MalformedFails ==
  (pc = "done" /\ ~U8Input.ok) => ret_val = -1

\* C6: an input made of directly representable code points (0x20-0x7E as one
\* byte, 0xA0-0xFF as two bytes) is accepted in both modes, one byte per code
\* point, each byte equal to its code point, the same in both modes.
C6_DirectUnchanged ==
  (pc = "done" /\ U8WellFormed /\ U8CodePoints \subseteq DirectSet) =>
    /\ ret_val = Len(U8Input.cps)
    /\ ~bb_null => \A k \in 0..(ret_val - 1) : bb[k] = U8Input.cps[k + 1]
    /\ OtherMode = [ret_val |-> ret_val, bb |-> bb]

\* "cafe" with U+00E9: four bytes ending in 0xE9
C6_Witness ==
  /\ pc = "done"
  /\ ss = <<99, 97, 102, 195, 169>>
  /\ ~bb_null
  /\ ret_val = 4
  /\ bb[3] = 233

\* C7: each of the eight always-remapped code points is accepted in both
\* modes and yields the same byte in both, a byte in 0x80-0x9F; U+0160 yields
\* 0x97 and U+0192 yields 0x86, not the table's 0x8A and 0x83.
C7_AlwaysRemapped ==
  (pc = "done" /\ U8WellFormed /\ U8CodePoints \subseteq StrictSet) =>
    /\ ret_val = Len(U8Input.cps)
    /\ OtherMode = [ret_val |-> ret_val, bb |-> bb]
    /\ ~bb_null =>
         \A k \in 0..(ret_val - 1) :
           LET cp == U8Input.cps[k + 1] IN
           cp \in EightSet =>
             /\ bb[k] \in 128..159
             /\ cp = 352 => bb[k] = 151
             /\ cp = 402 => bb[k] = 134
             /\ cp \in {352, 402} =>
                  bb[k] # unicode_latin_extended_windows_map[cp - 255]

C7_Witness ==
  /\ pc = "done"
  /\ ~encrypt_b
  /\ ~bb_null
  /\ ss = <<197, 160, 198, 146, 65>>
  /\ ret_val = 3
  /\ bb[0] = 151
  /\ bb[1] = 134

\* C8 (as claimed): the encrypting (Strict) call accepts exactly the inputs
\* whose code points are all in 0x20-0x7E, 0xA0-0xFF or among the eight
\* always-remapped ones; any other code point makes it return -1.
C8_StrictExact ==
  (pc = "done" /\ encrypt_b /\ U8Input.ok) =>
    (ret_val # -1 <=> U8CodePoints \subseteq StrictSet)

\* C9: the table has 256 entries, and the decrypting (Permissive) call
\* accepts every code point of 0x0100-0x01FF that is not always-remapped,
\* yielding the table entry at offset d - 0x100.
C9_TableTotal ==
  /\ Len(unicode_latin_extended_windows_map) = 256
  /\ (pc = "done" /\ ~encrypt_b /\ U8WellFormed
        /\ U8CodePoints \subseteq (DirectSet \cup (MapSet \ EightSet))) =>
       /\ ret_val = Len(U8Input.cps)
       /\ ~bb_null =>
            \A k \in 0..(ret_val - 1) :
              LET cp == U8Input.cps[k + 1] IN
              cp \in MapSet =>
                /\ (cp - 256) + 1 \in DOMAIN unicode_latin_extended_windows_map
                /\ bb[k] = unicode_latin_extended_windows_map[(cp - 256) + 1]

\* "A" U+0100 yields 'A' 'A'
C9_Witness ==
  /\ pc = "done"
  /\ ~encrypt_b
  /\ ~bb_null
  /\ ss = <<65, 196, 128>>
  /\ ret_val = 2
  /\ bb[1] = 65

\* C10 (as claimed): in the decrypting (Permissive) call a code point outside
\* 0x20-0x7E, 0xA0-0xFF, the eight and 0x0100-0x01FF is accepted exactly when
\* it is one of the listed special cases (U+2014 yields 0x84); every other
\* code point, control code points included, makes the call return -1.
C10_PermissiveExact ==
  (pc = "done" /\ ~encrypt_b /\ U8Input.ok) =>
    /\ ret_val # -1 <=> U8CodePoints \subseteq PermissiveSet
    /\ (ret_val # -1 /\ ~bb_null) =>
         \A k \in 0..(ret_val - 1) :
           (k < Len(U8Input.cps) /\ U8Input.cps[k + 1] = 8212) => bb[k] = 132

\* C11 (as claimed): only ss_size delimits the input: a 0x00 byte is decoded
\* as code point 0 like any other byte, so a call that does not fail has
\* decoded every byte up to ss_size, and an input holding a 0x00 byte
\* returns -1.
C11_LengthDelimited ==
  pc = "done" =>
    /\ ret_val # -1 => ii = ss_size
    /\ (\E k \in 1..Len(ss) : ss[k] = 0) => ret_val = -1

\* C12 (as claimed): an overlong sequence (two bytes for a value below 0x80,
\* three bytes for a value below 0x800) is never accepted as if it were the
\* shorter encoding of its code point: once the loop has decoded one, the
\* result is -1.
C12_OverlongFails ==
  pc = "emit" =>
    \A p \in 0..(ii - 1) :
      (U8At(ss, p).len = ii - p /\ U8Overlong(U8At(ss, p))) => ret_val = -1

\* what a failed call has written: the bytes of the iters - 1 code points
\* that precede the failing one, at cells 0..iters-2, in input order
FailedPrefix ==
  (pc = "done" /\ ret_val = -1) =>
    /\ bb_null => Written = {}
    /\ ~bb_null =>
         /\ Written = 0..(iters - 2)
         /\ iters - 1 <= Len(U8Input.cps)
         /\ \A k \in 0..(iters - 2) :
              bb[k] = StoreByte(ClassData(U8Input.cps[k + 1], encrypt_b))

\* C13 (as claimed): once the result is -1 it stays -1 and nothing more
\* happens to the input or the output: no byte is written, the input index
\* does not move and no further input byte is read; the output holds only
\* the bytes of the code points before the first failure.
C13_StopsAtFirstFailure ==
  /\ []FailedPrefix
  /\ [][ret_val = -1 =>
          /\ ret_val' = -1
          /\ bb' = bb
          /\ ii' = ii
          /\ data' = data
          /\ reads' = reads]_vars

\* C13 (amended): as above, except that after a code point was rejected the
\* loop condition still reads the next input byte ss[ii] once (when
\* ii < ss_size) before it tests ret_val.
C13_StopsAfterCondition ==
  /\ []FailedPrefix
  /\ [][ret_val = -1 =>
          /\ ret_val' = -1
          /\ bb' = bb
          /\ ii' = ii
          /\ data' = data
          /\ iters' = iters
          /\ reads' \subseteq reads \cup {ii}
          /\ reads' # reads => (pc = "loop" /\ pc' = "done" /\ ii < ss_size)]_vars

\* 'A' accepted, 0x7F rejected, the final 'A' read by the loop condition only
C13_Witness ==
  /\ pc = "done"
  /\ ~bb_null
  /\ ss = <<65, 127, 65>>
  /\ ret_val = -1
  /\ iters = 2
  /\ Written = {0}
  /\ bb[0] = 65
  /\ reads = {0, 1, 2}

\* C14: every call returns; an iteration of the loop either advances ii by
\* 1, 2 or 3 or sets ret_val to -1 and leaves the loop, and the loop body is
\* entered at most ss_size times.
C14_Terminates ==
  /\ <>(pc = "done")
  /\ [](iters <= ss_size /\ iters <= ii + 1)
  /\ [][pc = "decode" =>
          \/ (ii' - ii \in 1..3 /\ ret_val' = ret_val /\ pc' = "classify")
          \/ (ii' = ii /\ ret_val' = -1 /\ pc' = "done")]_vars
  /\ [][pc # "decode" => ii' = ii]_vars

\* a call that ran as many iterations as the input has bytes
C14_Witness ==
  /\ pc = "done"
  /\ ss_size = 3
  /\ iters = 3
  /\ ii = 3
  /\ ret_val = 3

\* the inputs a Strict-accepted input is compared with
OtherInputs == SmallInputs \cup OneByteInputs \cup TwoByteInputs

\* the encrypting (Strict) real run on another input t
StrictRun(t) == utf8_password_to_pdfdoc(FALSE, t, Len(t), TRUE)

\* C15 (as claimed): the Strict mapping is injective on code points, so two
\* Strict-accepted inputs that produce the same output bytes have the same
\* code-point sequence.
C15_StrictInjective ==
  (pc = "done" /\ encrypt_b /\ ~bb_null /\ ret_val # -1) =>
    \A t \in OtherInputs :
      (/\ StrictRun(t).ret_val = ret_val
       /\ \A k \in 0..(ret_val - 1) : StrictRun(t).bb[k] = bb[k])
        => U8Parse(t, 0).cps = U8Input.cps

\* C16: while the result is not -1, 0 <= ret_val <= ii <= ss_size; every
\* input index read, look-ahead reads included, is below ss_size; a
\* successful count never exceeds ss_size.
C16_IndexBounds ==
  /\ ret_val # -1 => (0 <= ret_val /\ ret_val <= ii /\ ii <= ss_size)
  /\ \A k \in reads : 0 <= k /\ k < ss_size
  /\ (pc = "done" /\ ret_val # -1) => ret_val <= ss_size

\* 'A', then a three-byte sequence cut short after its second byte: the
\* third byte would be at index ss_size and is not read
C16_Witness ==
  /\ pc = "done"
  /\ ss = <<65, 226, 128>>
  /\ ret_val = -1
  /\ ii = 1
  /\ reads = {0, 1, 2}

====
